---------------------------- MODULE Spec2Model ----------------------------
(***************************************************************************)
(* A model of the task assistant: the extraction pipeline of utils.py      *)
(* (_bucket, analyse_tasks, push_airtable), the chat handlers and          *)
(* scheduler call-backs of bot.py and the form of app.py.                   *)
(*                                                                         *)
(* Time is in seconds since the epoch (1970-01-01 00:00 UTC, a Thursday);  *)
(* LOCAL_TZ is UTC (bot.py:42) and the process's local date is taken to be *)
(* the UTC date.  A calendar date is its day number since the epoch.       *)
(*                                                                         *)
(* A Python/JSON value is a tagged record: None, IntV(n), FloatV(h) (the   *)
(* float h/Scale), StrV(s), BoolV(b), DateV(d) (the string "YYYY-MM-DD" of *)
(* day d) and DateTimeV(d, h) (the string "YYYY-MM-DD HH:00").  A dict is  *)
(* a function from its keys (strings) to values.                           *)
(*                                                                         *)
(* The language-model service and the record store are outside the         *)
(* program: what the service answers, and which create the store refuses,  *)
(* are inputs of the steps.  Reads of the store are taken to answer,       *)
(* except in /list, which handles the failure itself.                      *)
(***************************************************************************)
EXTENDS Integers, Sequences, FiniteSets, TLC

VARIABLES
    store,    \* the Airtable table: records <<[id, fields]>> in table.all() order
    jobs,     \* the job queue: the pending entries, in registration order
    created,  \* how many records the backend has created (and given an id)
    now,      \* the clock, seconds since the epoch
    ticks,    \* how many times the clock has advanced
    last,     \* the outcome of the latest handler or call-back run
    arg,      \* pure-function harness: the argument under check
    ret       \* pure-function harness: the value returned for arg

vars == <<store, jobs, created, now, ticks, last, arg, ret>>

(***************************************************************************)
(* Bounds of the model.                                                    *)
(***************************************************************************)
MaxHalfMinutes == 124   \* durations 0 .. 62 minutes, in half minutes
MaxRows == 2            \* rows in one language-model response (chat model)
MaxCreates == 2         \* records ever created in one behaviour
MaxTicks == 1           \* clock advances in one behaviour

(***************************************************************************)
(* Values.                                                                 *)
(***************************************************************************)
Scale == 2              \* a float is kept in 1/Scale units, so 1.5 is 3

None == [t |-> "None"]
IntV(n) == [t |-> "int", n |-> n]
FloatV(h) == [t |-> "float", h |-> h]
StrV(s) == [t |-> "str", s |-> s]
BoolV(b) == [t |-> "bool", b |-> b]
DateV(d) == [t |-> "isodate", d |-> d]
DateTimeV(d, h) == [t |-> "isodatetime", d |-> d, h |-> h]

\* Python truthiness (the `or` of utils.py:78 and :92, the `if` of :93).
Truthy(v) ==
    CASE v.t = "None" -> FALSE
      [] v.t = "int" -> v.n # 0
      [] v.t = "float" -> v.h # 0
      [] v.t = "bool" -> v.b
      [] v.t = "str" -> v.s # ""
      [] OTHER -> TRUE

\* A row of the response that is a JSON object (a dict), not a scalar.
IsDict(x) == "t" \notin DOMAIN x

\* dict.get(k, default)
Get(row, k, default) == IF k \in DOMAIN row THEN row[k] ELSE default

\* row[k] = v
Put(row, k, v) == [x \in DOMAIN row \cup {k} |-> IF x = k THEN v ELSE row[x]]

\* the dict left by row.pop(k, None)
Del(row, k) == [x \in DOMAIN row \ {k} |-> row[x]]

\* row.setdefault(k, v)
SetDefault(row, k, v) == IF k \in DOMAIN row THEN row ELSE Put(row, k, v)

\* A variant of Update in which a key the row already has keeps its value.
UpdateKeepsRow(row, extras) ==
    [x \in DOMAIN row \cup DOMAIN extras |->
        IF x \in DOMAIN row THEN row[x] ELSE extras[x]]

\* row.update(extras)
Update(row, extras) ==
    [x \in DOMAIN row \cup DOMAIN extras |->
        IF x \in DOMAIN extras THEN extras[x] ELSE row[x]]

EmptyDict == [x \in {} |-> None]

(***************************************************************************)
(* Calendar.                                                               *)
(***************************************************************************)
SecondsPerDay == 86400
SecondsPerHour == 3600

\* dt.date.today(), datetime.now().date()
DayOf(t) == t \div SecondsPerDay

\* date.weekday(): Monday is 0; day 0 is a Thursday.
weekday(d) == (d + 3) % 7

\* dt.datetime.combine(day, dt.time(hour, tzinfo=LOCAL_TZ)).timestamp()
timestamp(d, hour) == d * SecondsPerDay + hour * SecondsPerHour

(***************************************************************************)
(* utils.py: 1. Timer Category Logic                                       *)
(***************************************************************************)
CATEGORIES ==
    << "Lifeline", "Quick Task", "Small Task",
       "Focused Sprint", "1 Hour Challenge", "Deep Work" >>

\* A variant of _bucket whose first comparison is strict.
_bucket_strict(mins) ==
    IF 10 * mins < 15 * Scale THEN "Lifeline"
    ELSE IF mins <= 5 * Scale THEN "Quick Task"
    ELSE IF mins <= 10 * Scale THEN "Small Task"
    ELSE IF mins <= 25 * Scale THEN "Focused Sprint"
    ELSE IF mins <= 60 * Scale THEN "1 Hour Challenge"
    ELSE "Deep Work"

\* _bucket(mins), mins in 1/Scale minutes: 1.5 is 15 * Scale / 10.
_bucket(mins) ==
    IF 10 * mins <= 15 * Scale THEN "Lifeline"
    ELSE IF mins <= 5 * Scale THEN "Quick Task"
    ELSE IF mins <= 10 * Scale THEN "Small Task"
    ELSE IF mins <= 25 * Scale THEN "Focused Sprint"
    ELSE IF mins <= 60 * Scale THEN "1 Hour Challenge"
    ELSE "Deep Work"


(***************************************************************************)
(* utils.py: 2. GPT -> structured rows                                     *)
(***************************************************************************)
\* JSON containers of the decoded response (json.loads, utils.py:68).
JList(items) == [t |-> "list", items |-> items]
JObj(d) == [t |-> "dict", d |-> d]

\* The decimal strings int() accepts, with their values.
NumericStrings == ("10" :> 10) @@ ("0" :> 0) @@ ("61" :> 61)

\* Whether int(v) returns (it raises ValueError or TypeError otherwise).
CanInt(v) ==
    \/ v.t \in {"int", "float", "bool"}
    \/ v.t = "str" /\ v.s \in DOMAIN NumericStrings

\* int(v): a float is truncated towards zero.
IntOf(v) ==
    CASE v.t = "int" -> v.n
      [] v.t = "float" ->
            IF v.h >= 0 THEN v.h \div Scale ELSE 0 - ((0 - v.h) \div Scale)
      [] v.t = "bool" -> IF v.b THEN 1 ELSE 0
      [] OTHER -> NumericStrings[v.s]

\* Whether dateutil's parser.parse(raw) returns: ISO dates and date-times
\* and a weekday name parse; any other string, and any non-string, raises.
CanParseDate(raw) ==
    \/ raw.t \in {"isodate", "isodatetime"}
    \/ raw = StrV("friday")

\* parser.parse(raw, default=datetime.now()).date(): the time of day is
\* dropped; a weekday name is the first such day on or after today.
ParsedDay(raw, t) ==
    IF raw.t \in {"isodate", "isodatetime"} THEN raw.d
    ELSE DayOf(t) + ((4 - weekday(DayOf(t))) % 7)

\* utils.py:78: int(row.get("Est. Minutes", 0) or 0)
MinsArg(row) ==
    LET e == Get(row, "Est. Minutes", IntV(0))
    IN  IF Truthy(e) THEN e ELSE IntV(0)

\* Whether the loop body of utils.py:76-100 raises on this row.
RowRaises(row) == ~IsDict(row) \/ ~CanInt(MinsArg(row))

\* utils.py:92-100: the row after its due date is normalised.
DueStep(row) ==
    LET first == Get(row, "DueDate", None)
        r1 == Del(row, "DueDate")
        r2 == IF Truthy(first) THEN r1 ELSE Del(r1, "Due Date")
        raw_due == IF Truthy(first) THEN first ELSE Get(r1, "Due Date", None)
    IN  [r |-> r2, raw_due |-> raw_due]

\* A variant of AnalyseRow that keeps the model's Timer Category when the
\* row has one.
AnalyseRowKeepCategory(row, t) ==
    LET mins == IntOf(MinsArg(row))
        a == Put(row, "Est. Minutes", IntV(mins))
        b == SetDefault(a, "Timer Category", StrV(_bucket(mins * Scale)))
        c == SetDefault(b, "Client", StrV("General"))
        d == SetDefault(c, "Project", StrV("General"))
        e == SetDefault(d, "Early Bonus", IntV(0))
        f == SetDefault(e, "Penalty", IntV(0))
        g == SetDefault(f, "Actual Minutes", None)
        due == DueStep(g)
    IN  Put(due.r, "DueDate",
            IF Truthy(due.raw_due) /\ CanParseDate(due.raw_due)
            THEN DateV(ParsedDay(due.raw_due, t))
            ELSE None)

\* utils.py:76-100: the loop body, for a row it does not raise on.
AnalyseRow(row, t) ==
    LET mins == IntOf(MinsArg(row))
        a == Put(row, "Est. Minutes", IntV(mins))
        b == Put(a, "Timer Category", StrV(_bucket(mins * Scale)))
        c == SetDefault(b, "Client", StrV("General"))
        d == SetDefault(c, "Project", StrV("General"))
        e == SetDefault(d, "Early Bonus", IntV(0))
        f == SetDefault(e, "Penalty", IntV(0))
        g == SetDefault(f, "Actual Minutes", None)
        due == DueStep(g)
    IN  Put(due.r, "DueDate",
            IF Truthy(due.raw_due) /\ CanParseDate(due.raw_due)
            THEN DateV(ParsedDay(due.raw_due, t))
            ELSE None)

\* utils.py:70-74: unwrap a "tasks" member, wrap a single object.
Unwrap(data) ==
    LET inner == IF data.t = "dict" /\ "tasks" \in DOMAIN data.d
                 THEN data.d["tasks"] ELSE data
    IN  IF inner.t = "dict" THEN JList(<<inner.d>>) ELSE inner

\* analyse_tasks(api_key, text, clients, projects) at instant t, given what
\* the language-model service answers: an OpenAIError, a body that is not
\* JSON, or a JSON value.  The result is the returned list, or raised.
analyse_tasks(response, t) ==
    IF response.kind # "json" THEN [raised |-> TRUE, rows |-> <<>>]
    ELSE LET data == Unwrap(response.data)
         IN  IF data.t # "list" THEN [raised |-> TRUE, rows |-> <<>>]
             ELSE IF \E i \in 1..Len(data.items) : RowRaises(data.items[i])
             THEN [raised |-> TRUE, rows |-> <<>>]
             ELSE [raised |-> FALSE,
                   rows |-> [i \in 1..Len(data.items) |->
                                AnalyseRow(data.items[i], t)]]

(***************************************************************************)
(* Inputs: what the language-model service may answer.                     *)
(***************************************************************************)
Absent == [t |-> "absent"]      \* marks a key the model left out

\* The dict with the listed keys, without those marked Absent.
RowOf(task, est, cat, client, project, due, due2, notes) ==
    LET full == ("Task" :> task) @@ ("Est. Minutes" :> est)
                @@ ("Timer Category" :> cat) @@ ("Client" :> client)
                @@ ("Project" :> project) @@ ("DueDate" :> due)
                @@ ("Due Date" :> due2) @@ ("Notes" :> notes)
    IN  [k \in {x \in DOMAIN full : full[x] # Absent} |-> full[k]]

EstOptions ==
    { Absent, None, IntV(0), IntV(1), IntV(2), IntV(10), IntV(11), IntV(61),
      IntV(0 - 3), FloatV(3), FloatV(11), StrV("10"), StrV("abc"), StrV("") }
CategoryOptions == { Absent, StrV("Deep Work"), StrV("Lifeline") }
ClientOptions == { Absent, StrV("General"), StrV("Acme") }
ProjectOptions == { Absent, StrV("Zeta") }
DueOptions ==
    { Absent, None, StrV(""), DateV(6), DateTimeV(6, 15), StrV("friday"),
      StrV("gibberish"), IntV(5) }
Due2Options == { Absent, DateV(10), StrV("gibberish") }

ExtractRows ==
    { RowOf(StrV("t1"), e, c, cl, pr, d, d2, Absent) :
        e \in EstOptions, c \in CategoryOptions, cl \in ClientOptions,
        pr \in ProjectOptions, d \in DueOptions, d2 \in Due2Options }

SampleRows ==
    { RowOf(StrV("t1"), IntV(10), StrV("Deep Work"), Absent, Absent,
            Absent, Absent, Absent),
      RowOf(StrV("t2"), StrV("abc"), Absent, Absent, Absent,
            DateV(6), Absent, Absent),
      RowOf(StrV("t2"), FloatV(3), Absent, StrV("Acme"), Absent,
            StrV("friday"), DateV(10), StrV("x")) }

OpenAIError == [kind |-> "OpenAIError"]
NotJson == [kind |-> "text"]
Json(data) == [kind |-> "json", data |-> data]

ExtractResponses ==
    { OpenAIError, NotJson, Json(IntV(5)), Json(JList(<<StrV("t1")>>)),
      Json(JList(<<>>)), Json(JObj("tasks" :> JList(<<>>))) }
    \cup { Json(JList(<<r>>)) : r \in ExtractRows }
    \cup { Json(JObj(r)) : r \in ExtractRows }
    \cup { Json(JObj("tasks" :> JList(<<r>>))) : r \in SampleRows }
    \cup { Json(JObj("tasks" :> JObj(r))) : r \in SampleRows }
    \cup { Json(JList(<<r1, r2>>)) : r1 \in SampleRows, r2 \in SampleRows }

(***************************************************************************)
(* Harness for the pure functions: arg is drawn by Init, the action        *)
(* applies the function and keeps what it returned in ret.                 *)
(***************************************************************************)
Pending == [done |-> FALSE]

StartInstant == timestamp(10, 23)

Idle == [op |-> "none"]

InitBot ==
    /\ store = <<>>
    /\ jobs = <<>>
    /\ created = 0
    /\ now = StartInstant
    /\ ticks = 0
    /\ last = Idle

InitBucket ==
    /\ InitBot
    /\ arg \in [a : 0..MaxHalfMinutes, b : 0..MaxHalfMinutes]
    /\ ret = Pending

BucketCall ==
    /\ ret = Pending
    /\ ret' = [done |-> TRUE, a |-> _bucket(arg.a), b |-> _bucket(arg.b)]
    /\ UNCHANGED <<store, jobs, created, now, ticks, last, arg>>

NextBucket == BucketCall

SpecBucket == InitBucket /\ [][NextBucket]_vars

InitExtract ==
    /\ InitBot
    /\ arg \in ExtractResponses
    /\ ret = Pending

AnalyseCall ==
    /\ ret = Pending
    /\ ret' = [done |-> TRUE, out |-> analyse_tasks(arg, now)]
    /\ UNCHANGED <<store, jobs, created, now, ticks, last, arg>>

NextExtract == AnalyseCall

SpecExtract == InitExtract /\ [][NextExtract]_vars

(***************************************************************************)
(* C1.  For every duration minutes >= 0, _bucket(minutes) is the label of  *)
(* the first upper bound of the table, in ascending order, that minutes    *)
(* does not exceed (1.5 Lifeline, 5 Quick Task, 10 Small Task, 25 Focused  *)
(* Sprint, 60 1 Hour Challenge), Deep Work when it exceeds them all; and   *)
(* a longer duration never gets an earlier category.                       *)
(***************************************************************************)
UpperBoundsTenths == <<15, 50, 100, 250, 600>>    \* the table, in 1/10 minute

Exceeds(mins, i) == mins * 10 > UpperBoundsTenths[i] * Scale

FirstFit(mins) ==
    IF \E i \in 1..5 : ~Exceeds(mins, i)
    THEN CHOOSE i \in 1..5 :
            ~Exceeds(mins, i) /\ \A j \in 1..(i - 1) : Exceeds(mins, j)
    ELSE 6

CategoryIndex(c) == CHOOSE i \in 1..6 : CATEGORIES[i] = c

C1_BucketTable ==
    ret # Pending =>
        /\ ret.a \in { CATEGORIES[i] : i \in 1..6 }
        /\ ret.a = CATEGORIES[FirstFit(arg.a)]
        /\ ret.b = CATEGORIES[FirstFit(arg.b)]
        /\ arg.a <= arg.b => CategoryIndex(ret.a) <= CategoryIndex(ret.b)

\* 1.5 minutes is still Lifeline and 2 minutes is Quick Task.
C1_Witness ==
    /\ ret # Pending
    /\ arg.a = 3 /\ ret.a = "Lifeline"
    /\ arg.b = 4 /\ ret.b = "Quick Task"

(***************************************************************************)
(* C2.  Every row analyse_tasks returns has Timer Category equal to        *)
(* _bucket of its Est. Minutes, whatever Timer Category the model put in   *)
(* the row.                                                                *)
(***************************************************************************)
C2_CategoryRecomputed ==
    (ret # Pending /\ ~ret.out.raised) =>
        \A i \in 1..Len(ret.out.rows) :
            LET row == ret.out.rows[i]
            IN  /\ row["Est. Minutes"].t = "int"
                /\ row["Timer Category"] =
                       StrV(_bucket(row["Est. Minutes"].n * Scale))

\* The model said Deep Work for a 10-minute task; the row comes back as
\* Small Task.
C2_Witness ==
    /\ ret # Pending
    /\ arg = Json(JList(<<RowOf(StrV("t1"), IntV(10), StrV("Deep Work"),
                                Absent, Absent, Absent, Absent, Absent)>>))
    /\ ~ret.out.raised
    /\ ret.out.rows[1]["Timer Category"] = StrV("Small Task")

(***************************************************************************)
(* The record store (pyairtable Table) and the job queue.                  *)
(***************************************************************************)
\* Identifiers the backend assigns, in the order it assigns them; an id is
\* a sequence of characters, so that a prefix can be matched against it.
IdPool ==
    << <<"r", "a">>, <<"r", "b">>, <<"s", "a">>, <<"s", "b">>, <<"t", "a">> >>

\* table.create(row): the table with the new record, under the next id.
TableCreate(st, id, row) == Append(st, [id |-> id, fields |-> row])

\* jobq.run_once(callback, when, data=data) called at instant t for record
\* rec: `when` is a number, which the job queue takes as seconds from now.
run_once(q, callback, when, data, t, rec) ==
    Append(q, [callback |-> callback, fireAt |-> t + when, data |-> data,
               rec |-> rec])

\* app.job_queue.run_daily(_morning, time=dt.time(8, 0)) called at instant t:
\* the first run is the next 08:00.
run_daily(q, t) ==
    LET today8 == timestamp(DayOf(t), 8)
    IN  Append(q, [callback |-> "_morning",
                   fireAt |-> IF t <= today8 THEN today8
                              ELSE today8 + SecondsPerDay,
                   data |-> None, rec |-> <<>>])

(***************************************************************************)
(* bot.py: _parse_flags.  The text of a command is its sequence of words   *)
(* (c.args); a flag is matched on whole words.                             *)
(***************************************************************************)
BadDate == StrV("2024-13-45")    \* matches \d{4}-\d{2}-\d{2}, is no date

\* (high|medium|low) under re.I, with m.group(1).capitalize()
PriorityWords ==
    ("high" :> "High") @@ ("medium" :> "Medium") @@ ("low" :> "Low")
    @@ ("HIGH" :> "High")

IsPriorityFlag(a, b) ==
    /\ a \in {StrV("--p"), StrV("--priority")}
    /\ b.t = "str" /\ b.s \in DOMAIN PriorityWords

IsDueFlag(a, b) == a = StrV("--due") /\ (b.t = "isodate" \/ b = BadDate)

\* txt.replace(m.group(0), ""): every occurrence of the words a b is removed.
RECURSIVE RemovePair(_, _, _)
RemovePair(txt, a, b) ==
    IF Len(txt) < 2 THEN txt
    ELSE IF txt[1] = a /\ txt[2] = b
         THEN RemovePair(SubSeq(txt, 3, Len(txt)), a, b)
         ELSE <<txt[1]>> \o RemovePair(Tail(txt), a, b)

\* The position of the first match of a flag in txt, 0 when there is none.
FirstPriority(txt) ==
    IF \E i \in 1..(Len(txt) - 1) : IsPriorityFlag(txt[i], txt[i + 1])
    THEN CHOOSE i \in 1..(Len(txt) - 1) :
            /\ IsPriorityFlag(txt[i], txt[i + 1])
            /\ \A j \in 1..(i - 1) : ~IsPriorityFlag(txt[j], txt[j + 1])
    ELSE 0

FirstDue(txt) ==
    IF \E i \in 1..(Len(txt) - 1) : IsDueFlag(txt[i], txt[i + 1])
    THEN CHOOSE i \in 1..(Len(txt) - 1) :
            /\ IsDueFlag(txt[i], txt[i + 1])
            /\ \A j \in 1..(i - 1) : ~IsDueFlag(txt[j], txt[j + 1])
    ELSE 0

_parse_flags(txt) ==
    LET p == FirstPriority(txt)
        extra1 == IF p = 0 THEN EmptyDict
                  ELSE "Priority" :> StrV(PriorityWords[txt[p + 1].s])
        txt1 == IF p = 0 THEN txt ELSE RemovePair(txt, txt[p], txt[p + 1])
        d == FirstDue(txt1)
        extra2 == IF d = 0 THEN extra1
                  ELSE Put(extra1, "DueDate", txt1[d + 1])
        txt2 == IF d = 0 THEN txt1 ELSE RemovePair(txt1, txt1[d], txt1[d + 1])
    IN  [txt |-> txt2, extra |-> extra2]

(***************************************************************************)
(* bot.py: /add                                                            *)
(***************************************************************************)
\* Whether dt.datetime.fromisoformat(v) returns (bot.py:153).
IsIsoDate(v) == v.t \in {"isodate", "isodatetime"}

\* A variant of DueReminders that leaves out a reminder whose instant is
\* already past.
DueRemindersFuture(q, task, due_d, t, rec) ==
    LET q1 == IF timestamp(due_d - 1, 9) < t THEN q
              ELSE run_once(q, "_due_reminder", timestamp(due_d - 1, 9),
                            [task |-> task, label |-> "due tomorrow"], t, rec)
        q2 == IF timestamp(due_d, 9) < t THEN q1
              ELSE run_once(q1, "_due_reminder", timestamp(due_d, 9),
                            [task |-> task, label |-> "due today"], t, rec)
    IN  IF timestamp(due_d - 2, 9) < t THEN q2
        ELSE run_once(q2, "_due_reminder", timestamp(due_d - 2, 9),
                      [task |-> task, label |-> "due in 2 days"], t, rec)

\* bot.py:152-164: the three due-date reminders of a row due on day due_d.
DueReminders(q, task, due_d, t, rec) ==
    LET q1 == run_once(q, "_due_reminder", timestamp(due_d - 1, 9),
                       [task |-> task, label |-> "due tomorrow"], t, rec)
        q2 == run_once(q1, "_due_reminder", timestamp(due_d, 9),
                       [task |-> task, label |-> "due today"], t, rec)
    IN  run_once(q2, "_due_reminder", timestamp(due_d - 2, 9),
                 [task |-> task, label |-> "due in 2 days"], t, rec)

\* A variant of Schedule that nudges only a row without a due date.
ScheduleNudgeUndated(q, row, t, rec) ==
    LET q1 == run_once(q, "_after_4h", 4 * 60 * 60,
                       [task |-> row["Task"]], t, rec)
        due == Get(row, "DueDate", None)
    IN  IF ~Truthy(due) THEN [raised |-> FALSE, jobs |-> q1]
        ELSE IF ~IsIsoDate(due) THEN [raised |-> TRUE, jobs |-> q]
        ELSE [raised |-> FALSE,
              jobs |-> DueReminders(q, row["Task"], due.d, t, rec)]

\* bot.py:147-164: the jobs registered for one created row; raised when
\* the row's DueDate is no ISO date (the nudge is registered by then).
Schedule(q, row, t, rec) ==
    LET q1 == run_once(q, "_after_4h", 4 * 60 * 60,
                       [task |-> row["Task"]], t, rec)
        due == Get(row, "DueDate", None)
    IN  IF ~Truthy(due) THEN [raised |-> FALSE, jobs |-> q1]
        ELSE IF ~IsIsoDate(due) THEN [raised |-> TRUE, jobs |-> q1]
        ELSE [raised |-> FALSE,
              jobs |-> DueReminders(q1, row["Task"], due.d, t, rec)]

\* A variant of AddRows that goes on with the next row after a refusal.
RECURSIVE AddRowsSkipRefused(_, _, _, _, _, _, _, _)
AddRowsSkipRefused(rows, i, extras, rejectAt, st, q, n, t) ==
    IF i > Len(rows)
    THEN [store |-> st, jobs |-> q, created |-> n, reply |-> "added",
          raised |-> FALSE, refused |-> 0]
    ELSE LET row == SetDefault(Update(rows[i], extras), "Done", BoolV(FALSE))
             id == IdPool[n + 1]
             sch == Schedule(q, row, t, id)
             rest == AddRowsSkipRefused(rows, i + 1, extras, rejectAt,
                                        st, q, n, t)
         IN  IF i = rejectAt
             THEN [rest EXCEPT !.reply = "refused", !.refused = i]
             ELSE IF sch.raised
             THEN [store |-> TableCreate(st, id, row), jobs |-> sch.jobs,
                   created |-> n + 1,
                   reply |-> "none", raised |-> TRUE, refused |-> 0]
             ELSE AddRowsSkipRefused(rows, i + 1, extras, rejectAt,
                                     TableCreate(st, id, row), sch.jobs,
                                     n + 1, t)

\* bot.py:138-145 and :166: the loop over the rows from row i on, n
\* records having been created so far.  The store raises ApiError on the
\* create of row rejectAt (0: on none).
RECURSIVE AddRows(_, _, _, _, _, _, _, _)
AddRows(rows, i, extras, rejectAt, st, q, n, t) ==
    IF i > Len(rows)
    THEN [store |-> st, jobs |-> q, created |-> n, reply |-> "added",
          raised |-> FALSE, refused |-> 0]
    ELSE LET row == SetDefault(Update(rows[i], extras), "Done", BoolV(FALSE))
             id == IdPool[n + 1]
             sch == Schedule(q, row, t, id)
         IN  IF i = rejectAt
             THEN [store |-> st, jobs |-> q, created |-> n,
                   reply |-> "refused", raised |-> FALSE, refused |-> i]
             ELSE IF sch.raised
             THEN [store |-> TableCreate(st, id, row), jobs |-> sch.jobs,
                   created |-> n + 1,
                   reply |-> "none", raised |-> TRUE, refused |-> 0]
             ELSE AddRows(rows, i + 1, extras, rejectAt,
                          TableCreate(st, id, row), sch.jobs, n + 1, t)

\* A variant of OnExtractionFailure that stores a row all the same.
OnExtractionFailureStores(st, q, n) ==
    [store |-> TableCreate(st, IdPool[n + 1], "Task" :> StrV("")),
     jobs |-> q, created |-> n + 1, reply |-> "gpt_failed",
     raised |-> FALSE, refused |-> 0]

\* bot.py:133-136: analyse_tasks raised.
OnExtractionFailure(st, q, n) ==
    [store |-> st, jobs |-> q, created |-> n, reply |-> "gpt_failed",
     raised |-> FALSE, refused |-> 0]

\* bot.py:121-167: the add handler on the words args at instant t, when
\* the language model answers response; the new store, queue and creation
\* count, and the handler's outcome.  In the outcome, base and jbase are
\* the lengths of the table and of the queue when the handler started: what
\* it created and registered lies after them.
add(args, response, rejectAt, st, q, n, t) ==
    LET flags == _parse_flags(args)
        res == analyse_tasks(response, t)
        end == IF args = <<>>
               THEN [store |-> st, jobs |-> q, created |-> n,
                     reply |-> "usage", raised |-> FALSE, refused |-> 0]
               ELSE IF res.raised THEN OnExtractionFailure(st, q, n)
               ELSE AddRows(res.rows, 1, flags.extra, rejectAt, st, q, n, t)
    IN  [store |-> end.store, jobs |-> end.jobs, created |-> end.created,
         last |-> [op |-> "add", reply |-> end.reply, raised |-> end.raised,
                   refused |-> end.refused,
                   failed |-> args # <<>> /\ res.raised,
                   text |-> IF args = <<>> THEN <<>> ELSE flags.txt,
                   extras |-> IF args = <<>> THEN EmptyDict ELSE flags.extra,
                   n |-> IF args = <<>> \/ res.raised THEN 0 ELSE Len(res.rows),
                   base |-> Len(st), jbase |-> Len(q), at |-> t]]

(***************************************************************************)
(* bot.py: /list, /today, /done, /delete and the small commands            *)
(***************************************************************************)
\* The Airtable formula {Done} != 1.
NotDone(r) == Get(r.fields, "Done", BoolV(FALSE)) # BoolV(TRUE)

\* A variant of _in_week that leaves out the last day of the week.
_in_week_short(r, week_start, week_end) ==
    LET due == Get(r.fields, "DueDate", None)
    IN  /\ Truthy(due)
        /\ due.t = "isodate"
        /\ week_start <= due.d /\ due.d < week_end

\* bot.py:184-192
_in_week(r, week_start, week_end) ==
    LET due == Get(r.fields, "DueDate", None)
    IN  /\ Truthy(due)
        /\ due.t = "isodate"
        /\ week_start <= due.d /\ due.d <= week_end

\* bot.py:213-216: the relative-day label of a line.
RelativeDay(d, today) ==
    IF d = today THEN "today"
    ELSE IF d = today + 1 THEN "tomorrow"
    ELSE IF 0 < d - today /\ d - today <= 6 THEN "this weekday"
    ELSE "weekday"

\* bot.py:171-223: the weekly view at instant t; up is whether the store
\* answers.  week_recs is in table order: the message shows these records
\* grouped by client and sorted by due date.
list_tasks(st, t, up) ==
    LET today == DayOf(t)
        week_start == today - weekday(today)
        week_end == week_start + 6
        Open(r) == NotDone(r)
        InWeek(r) == _in_week(r, week_start, week_end)
        week_recs == SelectSeq(SelectSeq(st, Open), InWeek)
    IN  IF ~up THEN [op |-> "list", reply |-> "unreachable", raised |-> FALSE,
                     week_recs |-> <<>>, at |-> t]
        ELSE IF week_recs = <<>>
        THEN [op |-> "list", reply |-> "none_this_week", raised |-> FALSE,
              week_recs |-> <<>>, at |-> t]
        ELSE [op |-> "list", reply |-> "week", raised |-> FALSE,
              week_recs |->
                [i \in 1..Len(week_recs) |->
                    [id |-> week_recs[i].id,
                     rel |-> RelativeDay(week_recs[i].fields["DueDate"].d,
                                         today)]],
              at |-> t]

\* The Airtable formula AND({DueDate} = '<today>', {Done} != 1).
DueToday(st, t) ==
    LET Match(r) == /\ Get(r.fields, "DueDate", None) = DateV(DayOf(t))
                    /\ NotDone(r)
    IN  SelectSeq(st, Match)

\* bot.py:55-60
_format(rec) ==
    [done |-> Truthy(Get(rec.fields, "Done", None)), id |-> rec.id,
     task |-> rec.fields["Task"], due |-> Get(rec.fields, "DueDate", None)]

\* bot.py:227-232
today(st, t) ==
    LET recs == DueToday(st, t)
    IN  IF recs = <<>>
        THEN [op |-> "today", reply |-> "nothing_due", raised |-> FALSE,
              lines |-> <<>>]
        ELSE [op |-> "today", reply |-> "lines", raised |-> FALSE,
              lines |-> [i \in 1..Len(recs) |-> _format(recs[i])]]

\* str.startswith
StartsWith(id, uid) ==
    Len(uid) <= Len(id) /\ SubSeq(id, 1, Len(uid)) = uid

\* str.lstrip("#")
RECURSIVE LStrip(_)
LStrip(word) ==
    IF word # <<>> /\ word[1] = "#" THEN LStrip(Tail(word)) ELSE word

\* A variant of _by_id that falls back to the first record.
_by_id_first(st, uid) ==
    IF \E i \in 1..Len(st) : StartsWith(st[i].id, uid)
    THEN CHOOSE i \in 1..Len(st) :
            /\ StartsWith(st[i].id, uid)
            /\ \A j \in 1..(i - 1) : ~StartsWith(st[j].id, uid)
    ELSE IF st = <<>> THEN 0 ELSE 1

\* bot.py:234-236: the position in the table of the first record whose id
\* starts with uid, 0 for None.
_by_id(st, uid) ==
    IF \E i \in 1..Len(st) : StartsWith(st[i].id, uid)
    THEN CHOOSE i \in 1..Len(st) :
            /\ StartsWith(st[i].id, uid)
            /\ \A j \in 1..(i - 1) : ~StartsWith(st[j].id, uid)
    ELSE 0

\* table.delete(id)
TableDelete(st, i) == SubSeq(st, 1, i - 1) \o SubSeq(st, i + 1, Len(st))

\* A variant of TableUpdate that writes the fields to every record.
TableUpdateEvery(st, i, fields) ==
    [k \in 1..Len(st) |->
        [id |-> st[k].id, fields |-> Update(st[k].fields, fields)]]

\* table.update(id, {"Done": True})
TableUpdate(st, i, fields) ==
    [st EXCEPT ![i].fields = Update(st[i].fields, fields)]

\* bot.py:238-242: args is c.args.
done(args, st) ==
    LET i == _by_id(st, LStrip(args[1]))
    IN  IF args = <<>>
        THEN [store |-> st,
              last |-> [op |-> "done", reply |-> "usage", raised |-> FALSE,
                        uid |-> <<>>, looked |-> FALSE, id |-> <<>>]]
        ELSE IF i = 0
        THEN [store |-> st,
              last |-> [op |-> "done", reply |-> "not_found", raised |-> FALSE,
                        uid |-> LStrip(args[1]), looked |-> TRUE, id |-> <<>>]]
        ELSE [store |-> TableUpdate(st, i, "Done" :> BoolV(TRUE)),
              last |-> [op |-> "done", reply |-> "done", raised |-> FALSE,
                        uid |-> LStrip(args[1]), looked |-> TRUE, id |-> st[i].id]]

\* bot.py:244-248
delete(args, st) ==
    LET i == _by_id(st, LStrip(args[1]))
    IN  IF args = <<>>
        THEN [store |-> st,
              last |-> [op |-> "delete", reply |-> "usage", raised |-> FALSE,
                        uid |-> <<>>, looked |-> FALSE, id |-> <<>>]]
        ELSE IF i = 0
        THEN [store |-> st,
              last |-> [op |-> "delete", reply |-> "not_found",
                        raised |-> FALSE, uid |-> LStrip(args[1]), looked |-> TRUE,
                        id |-> <<>>]]
        ELSE [store |-> TableDelete(st, i),
              last |-> [op |-> "delete", reply |-> "deleted", raised |-> FALSE,
                        uid |-> LStrip(args[1]), looked |-> TRUE, id |-> st[i].id]]

(***************************************************************************)
(* bot.py: scheduler call-backs                                            *)
(***************************************************************************)
\* bot.py:75-79
_after_4h(job) ==
    [op |-> "_after_4h", raised |-> FALSE,
     msg |-> [kind |-> "nudge", task |-> job.data.task]]

\* bot.py:81-86
_due_reminder(job) ==
    [op |-> "_due_reminder", raised |-> FALSE,
     msg |-> [kind |-> job.data.label, task |-> job.data.task]]

\* A variant of _morning that sends nothing when no record is due.
_morning_silent(st, t) ==
    LET recs == DueToday(st, t)
    IN  IF recs = <<>>
        THEN [op |-> "_morning", raised |-> FALSE,
              msg |-> [kind |-> "none", lines |-> <<>>]]
        ELSE [op |-> "_morning", raised |-> FALSE,
              msg |-> [kind |-> "todays_tasks",
                       lines |-> [i \in 1..Len(recs) |-> _format(recs[i])]]]

\* bot.py:88-96
_morning(st, t) ==
    LET recs == DueToday(st, t)
    IN  IF recs = <<>>
        THEN [op |-> "_morning", raised |-> FALSE,
              msg |-> [kind |-> "nothing_due", lines |-> <<>>]]
        ELSE [op |-> "_morning", raised |-> FALSE,
              msg |-> [kind |-> "todays_tasks",
                       lines |-> [i \in 1..Len(recs) |-> _format(recs[i])]]]

(***************************************************************************)
(* utils.py: push_airtable, and the form of app.py                         *)
(***************************************************************************)
MUTABLE_FIELDS ==
    { "Task", "Client", "Project", "Timer Category", "Est. Minutes",
      "Early Bonus", "Penalty", "Actual Minutes", "DueDate" }

\* utils.py:118
Clean(r) ==
    [k \in {x \in DOMAIN r : x \in MUTABLE_FIELDS /\ r[x] # None} |-> r[k]]

\* utils.py:117-119: the loop from row i on, n records having been
\* created so far; the create of row rejectAt raises (0: none does).
RECURSIVE push_airtable(_, _, _, _, _)
push_airtable(rows, i, rejectAt, st, n) ==
    IF i > Len(rows)
    THEN [store |-> st, created |-> n, raised |-> FALSE]
    ELSE IF i = rejectAt
    THEN [store |-> st, created |-> n, raised |-> TRUE]
    ELSE push_airtable(rows, i + 1, rejectAt,
                       TableCreate(st, IdPool[n + 1], Clean(rows[i])), n + 1)

\* app.py:14-43: the button, on a text that is blank or not.
form(blank, response, rejectAt, st, n, t) ==
    LET res == analyse_tasks(response, t)
        pushed == push_airtable(res.rows, 1, rejectAt, st, n)
    IN  IF blank
        THEN [store |-> st, created |-> n,
              last |-> [op |-> "form", reply |-> "warning", raised |-> FALSE,
                        n |-> 0, base |-> Len(st)]]
        ELSE IF res.raised
        THEN [store |-> st, created |-> n,
              last |-> [op |-> "form", reply |-> "none", raised |-> TRUE,
                        n |-> 0, base |-> Len(st)]]
        ELSE [store |-> pushed.store, created |-> pushed.created,
              last |-> [op |-> "form",
                        reply |-> IF pushed.raised THEN "none" ELSE "saved",
                        raised |-> pushed.raised,
                        n |-> Len(res.rows), base |-> Len(st)]]

(***************************************************************************)
(* The chat model: inputs, initial state and steps.  The process starts    *)
(* on a Sunday (day 10) at 23:00, so that the week changes at the first    *)
(* midnight: day 10 ends one week and day 11 starts the next.              *)
(***************************************************************************)
RowA ==
    RowOf(StrV("t1"), Absent, Absent, Absent, Absent, Absent, Absent, Absent)
RowB ==
    RowOf(StrV("t2"), IntV(10), StrV("Deep Work"), Absent, Absent,
          DateV(11), Absent, StrV("x"))
RowBadMinutes ==
    RowOf(StrV("t2"), StrV("abc"), Absent, Absent, Absent, Absent, Absent,
          Absent)

BotRows == { RowA, RowB }

BotResponses ==
    { OpenAIError, NotJson, Json(JList(<<RowBadMinutes>>)) }
    \cup { Json(JList(rows)) :
            rows \in UNION { [1..n -> BotRows] : n \in 0..MaxRows } }

FormResponses == { OpenAIError, Json(JList(<<RowB>>)), Json(JList(<<RowB, RowA>>)) }

AddArgs ==
    { <<>>,
      <<StrV("milk")>>,
      <<StrV("milk"), StrV("--p"), StrV("high"), StrV("--due"), DateV(10)>>,
      <<StrV("milk"), StrV("--due"), BadDate>> }

IdArgs == { <<>>, << <<"#", "r", "b">> >>, << <<"#">> >>, << <<"z">> >> }

\* The rows a response holds: a handler that would create more records
\* than MaxCreates allows is not taken.
RowCount(response, t) == Len(analyse_tasks(response, t).rows)

Init ==
    /\ store = <<>>
    /\ created = 0
    /\ now = StartInstant
    /\ jobs = run_daily(<<>>, now)
    /\ ticks = 0
    /\ last = Idle
    /\ arg = None
    /\ ret = Pending

Add ==
    \E response \in BotResponses :
        /\ created + RowCount(response, now) <= MaxCreates
        /\ \E args \in AddArgs, rejectAt \in 0..RowCount(response, now) :
            /\ LET r == add(args, response, rejectAt, store, jobs, created, now)
               IN  /\ store' = r.store
                   /\ jobs' = r.jobs
                   /\ created' = r.created
                   /\ last' = r.last
            /\ UNCHANGED <<now, ticks, arg, ret>>

Form ==
    \E blank \in BOOLEAN, response \in FormResponses :
        \E rejectAt \in 0..RowCount(response, now) :
            /\ created + RowCount(response, now) <= MaxCreates
            /\ LET r == form(blank, response, rejectAt, store, created, now)
               IN  /\ store' = r.store
                   /\ created' = r.created
                   /\ last' = r.last
            /\ UNCHANGED <<jobs, now, ticks, arg, ret>>

List ==
    \E up \in BOOLEAN :
        /\ last' = list_tasks(store, now, up)
        /\ UNCHANGED <<store, jobs, created, now, ticks, arg, ret>>

Today ==
    /\ last' = today(store, now)
    /\ UNCHANGED <<store, jobs, created, now, ticks, arg, ret>>

Done ==
    \E args \in IdArgs :
        LET r == done(args, store)
        IN  /\ store' = r.store
            /\ last' = r.last
            /\ UNCHANGED <<jobs, created, now, ticks, arg, ret>>

\* A variant of Delete that also cancels the jobs of the deleted record.
DeleteCancelsJobs ==
    \E args \in IdArgs :
        LET r == delete(args, store)
            Other(j) == j.rec # r.last.id
        IN  /\ store' = r.store
            /\ last' = r.last
            /\ jobs' = IF r.last.reply = "deleted"
                       THEN SelectSeq(jobs, Other) ELSE jobs
            /\ UNCHANGED <<created, now, ticks, arg, ret>>

Delete ==
    \E args \in IdArgs :
        LET r == delete(args, store)
        IN  /\ store' = r.store
            /\ last' = r.last
            /\ UNCHANGED <<jobs, created, now, ticks, arg, ret>>

\* bot.py:110-117 and :250-251: start/help, ping and unknown only reply.
Small ==
    \E op \in {"start", "ping", "unknown"} :
        /\ last' = [op |-> op, reply |-> op, raised |-> FALSE]
        /\ UNCHANGED <<store, jobs, created, now, ticks, arg, ret>>

\* The words of a chat message that is no command.
BareTexts == { <<StrV("milk")>> }

\* bot.py:259-266: every handler main registers is a CommandHandler, or
\* the MessageHandler on filters.COMMAND.  A message that is not a command
\* matches none of them: the update is dropped, no handler runs and
\* nothing is sent.
BareText ==
    \E words \in BareTexts :
        /\ last' = [op |-> "text", reply |-> "none", raised |-> FALSE,
                    text |-> words]
        /\ UNCHANGED <<store, jobs, created, now, ticks, arg, ret>>

\* The queue without its entry i.
Without(q, i) == SubSeq(q, 1, i - 1) \o SubSeq(q, i + 1, Len(q))

\* A one-shot job runs its call-back at its instant and leaves the queue.
Fire ==
    \E i \in 1..Len(jobs) :
        /\ jobs[i].callback # "_morning"
        /\ jobs[i].fireAt <= now
        /\ jobs' = Without(jobs, i)
        /\ last' = IF jobs[i].callback = "_after_4h" THEN _after_4h(jobs[i])
                   ELSE _due_reminder(jobs[i])
        /\ UNCHANGED <<store, created, now, ticks, arg, ret>>

\* The daily job runs at its instant and is due again a day later.
Morning ==
    \E i \in 1..Len(jobs) :
        /\ jobs[i].callback = "_morning"
        /\ jobs[i].fireAt <= now
        /\ jobs' = [jobs EXCEPT ![i].fireAt = @ + SecondsPerDay]
        /\ last' = _morning(store, now)
        /\ UNCHANGED <<store, created, now, ticks, arg, ret>>

\* Time passes to the instant of the next job, once every job that is due
\* has run.
Tick ==
    /\ ticks < MaxTicks
    /\ \A i \in 1..Len(jobs) : jobs[i].fireAt > now
    /\ now' = CHOOSE t \in { jobs[i].fireAt : i \in 1..Len(jobs) } :
                \A i \in 1..Len(jobs) : t <= jobs[i].fireAt
    /\ ticks' = ticks + 1
    /\ UNCHANGED <<store, jobs, created, last, arg, ret>>

Next ==
    \/ Add \/ List \/ Today \/ Done \/ Delete \/ Small \/ BareText
    \/ Fire \/ Morning \/ Tick

Spec == Init /\ [][Next]_vars

\* The form is a process of its own, which shares the table with the bot.
SpecForm == Init /\ [][Form]_vars

(***************************************************************************)
(* What the latest /add created and registered.  After /add, until the     *)
(* next handler or call-back runs, the table and the queue are as /add     *)
(* left them: its records and jobs are those after base and jbase.         *)
(***************************************************************************)
AfterAdd == last.op = "add"

NewRecords == SubSeq(store, last.base + 1, Len(store))

NewJobs == SubSeq(jobs, last.jbase + 1, Len(jobs))

\* The positions in NewJobs of the jobs registered for record id.
JobsFor(id) == { j \in 1..Len(NewJobs) : NewJobs[j].rec = id }

NudgesFor(id) == { j \in JobsFor(id) : NewJobs[j].callback = "_after_4h" }

RemindersFor(id) ==
    { j \in JobsFor(id) : NewJobs[j].callback = "_due_reminder" }

DueOf(r) == Get(r.fields, "DueDate", None)

DueTomorrow(r) == DueOf(r) = DateV(DayOf(last.at) + 1)

(***************************************************************************)
(* C3.  As claimed: a task created by /add with due date tomorrow gets     *)
(* exactly three entries in the job queue (the nudge and two due-date      *)
(* reminders).                                                             *)
(***************************************************************************)
C3_ThreeEntries ==
    AfterAdd =>
        \A i \in 1..Len(NewRecords) :
            DueTomorrow(NewRecords[i]) =>
                /\ Cardinality(JobsFor(NewRecords[i].id)) = 3
                /\ Cardinality(RemindersFor(NewRecords[i].id)) = 2

(***************************************************************************)
(* C3, amended.  A task created by /add with due date tomorrow gets        *)
(* exactly four entries in the job queue: the nudge and the three due-date *)
(* reminders, the one for two days before the due date included although   *)
(* its 09:00 is already past.                                              *)
(***************************************************************************)
C3_FourEntries ==
    AfterAdd =>
        \A i \in 1..Len(NewRecords) :
            DueTomorrow(NewRecords[i]) =>
                LET id == NewRecords[i].id
                IN  /\ Cardinality(JobsFor(id)) = 4
                    /\ Cardinality(NudgesFor(id)) = 1
                    /\ { NewJobs[j].data.label : j \in RemindersFor(id) }
                         = { "due in 2 days", "due tomorrow", "due today" }
                    /\ Cardinality(RemindersFor(id)) = 3
                    /\ timestamp(DayOf(last.at) + 1 - 2, 9) < last.at

C3_Witness ==
    /\ AfterAdd
    /\ last.reply = "added"
    /\ \E i \in 1..Len(NewRecords) : DueTomorrow(NewRecords[i])

(***************************************************************************)
(* C4.  The due-date reminders of a task created with due date D fire at   *)
(* 09:00 on D-2 (due in 2 days), on D-1 (due tomorrow) and on D (due       *)
(* today).                                                                 *)
(***************************************************************************)
DaysBefore(label) ==
    CASE label = "due in 2 days" -> 2
      [] label = "due tomorrow" -> 1
      [] label = "due today" -> 0

C4_ReminderInstants ==
    AfterAdd =>
        \A i \in 1..Len(NewRecords) :
            \A j \in RemindersFor(NewRecords[i].id) :
                /\ IsIsoDate(DueOf(NewRecords[i]))
                /\ NewJobs[j].fireAt =
                       timestamp(DueOf(NewRecords[i]).d
                                    - DaysBefore(NewJobs[j].data.label), 9)

(***************************************************************************)
(* C5.  Every record /add creates gets exactly one nudge, due 4 hours      *)
(* after the creation, whether or not it has a due date; a record whose    *)
(* DueDate is null gets no other job.                                      *)
(***************************************************************************)
C5_OneNudge ==
    AfterAdd =>
        /\ \A i \in 1..Len(NewRecords) :
             LET id == NewRecords[i].id
             IN  /\ Cardinality(NudgesFor(id)) = 1
                 /\ \A j \in NudgesFor(id) :
                        /\ NewJobs[j].fireAt = last.at + 4 * SecondsPerHour
                        /\ NewJobs[j].data.task = NewRecords[i].fields["Task"]
                 /\ DueOf(NewRecords[i]) = None =>
                        Cardinality(JobsFor(id)) = 1
        /\ \A j \in 1..Len(NewJobs) :
             \E i \in 1..Len(NewRecords) : NewJobs[j].rec = NewRecords[i].id

\* One command created a record without a due date and one with a due date.
C5_Witness ==
    /\ AfterAdd
    /\ \E i \in 1..Len(NewRecords) : DueOf(NewRecords[i]) = None
    /\ \E i \in 1..Len(NewRecords) : IsIsoDate(DueOf(NewRecords[i]))

(***************************************************************************)
(* C6.  Every record in the store has only keys of the allow-list          *)
(* MUTABLE_FIELDS, whichever path created it.                              *)
(***************************************************************************)
C6_OnlyAllowedKeys ==
    \A i \in 1..Len(store) : DOMAIN store[i].fields \subseteq MUTABLE_FIELDS

(***************************************************************************)
(* C7.  When the language-model call of /add fails (the service fails or   *)
(* its answer cannot be turned into rows), the handler replies with the    *)
(* failure message and leaves the store and the job queue as they were.    *)
(***************************************************************************)
C7_FailureChangesNothing ==
    [][ (last'.op = "add" /\ last'.failed) =>
            /\ last'.reply = "gpt_failed"
            /\ ~last'.raised
            /\ store' = store
            /\ jobs' = jobs
            /\ created' = created ]_vars

C7_Witness ==
    /\ AfterAdd
    /\ last.failed
    /\ last.reply = "gpt_failed"
    /\ store # <<>>
    /\ Len(jobs) > 1

(***************************************************************************)
(* C8.  When the store refuses the create of row k of an /add, the handler *)
(* reports it and stops: the k-1 rows before it are in the store, each     *)
(* with its nudge and reminders; row k and the later rows are not stored   *)
(* and have no job; the success reply is not sent.                         *)
(***************************************************************************)
C8_RefusedRowStops ==
    (AfterAdd /\ last.refused > 0) =>
        /\ last.reply = "refused"
        /\ ~last.raised
        /\ Len(NewRecords) = last.refused - 1
        /\ Len(store) = last.base + last.refused - 1
        /\ \A i \in 1..Len(NewRecords) :
             /\ Cardinality(NudgesFor(NewRecords[i].id)) = 1
             /\ Cardinality(RemindersFor(NewRecords[i].id)) =
                    IF Truthy(DueOf(NewRecords[i])) THEN 3 ELSE 0
        /\ \A j \in 1..Len(NewJobs) :
             \E i \in 1..Len(NewRecords) : NewJobs[j].rec = NewRecords[i].id

\* The second row of two was refused: the first is stored, with its jobs.
C8_Witness ==
    /\ AfterAdd
    /\ last.refused = 2
    /\ last.n = 2
    /\ Len(NewRecords) = 1
    /\ NewJobs # <<>>

(***************************************************************************)
(* C9.  /done and /delete, given a prefix that no stored id starts with,   *)
(* reply not-found, do not raise and leave the store as it was.            *)
(***************************************************************************)
C9_NoMatchNoMutation ==
    [][ ( /\ last' # last
          /\ last'.op \in {"done", "delete"}
          /\ last'.looked
          /\ \A i \in 1..Len(store) : ~StartsWith(store[i].id, last'.uid) )
        => ( /\ last'.reply = "not_found"
             /\ ~last'.raised
             /\ store' = store ) ]_vars

C9_Witness ==
    /\ last.op = "done"
    /\ last.reply = "not_found"
    /\ store # <<>>
    /\ \A i \in 1..Len(store) : ~StartsWith(store[i].id, last.uid)

(***************************************************************************)
(* C10.  The weekly view shows exactly the open records whose due date d   *)
(* has weekStart <= d <= weekEnd, weekStart being the Monday of the        *)
(* current week and weekEnd the Sunday after it; an open record without a  *)
(* due date is never shown.                                                *)
(***************************************************************************)
\* Day 4 (1970-01-05) is a Monday: the Monday on or before day d.
MondayOf(d) == CHOOSE m \in (d - 6)..d : m % 7 = 4

ShownIds == { last.week_recs[i].id : i \in 1..Len(last.week_recs) }

InThisWeek(r) ==
    /\ DueOf(r).t = "isodate"
    /\ MondayOf(DayOf(last.at)) <= DueOf(r).d
    /\ DueOf(r).d <= MondayOf(DayOf(last.at)) + 6

C10_WeekView ==
    (last.op = "list" /\ last.reply # "unreachable") =>
        /\ ShownIds = { store[i].id : i \in
                          { k \in 1..Len(store) :
                              /\ Get(store[k].fields, "Done", None)
                                    \notin {BoolV(TRUE), IntV(1)}
                              /\ InThisWeek(store[k]) } }
        /\ Len(last.week_recs) = Cardinality(ShownIds)
        /\ (last.reply = "none_this_week") = (ShownIds = {})

\* The view shows a record and leaves out an open one that has no due date
\* and one that is due outside the week.
C10_Witness ==
    /\ last.op = "list"
    /\ last.reply = "week"
    /\ \E i \in 1..Len(store) :
          /\ store[i].id \notin ShownIds
          /\ Get(store[i].fields, "Done", None) = BoolV(FALSE)
          /\ DueOf(store[i]) \in {None, BadDate}
             \/ (IsIsoDate(DueOf(store[i])) /\ ~InThisWeek(store[i]))

(***************************************************************************)
(* The rows of a response, as analyse_tasks sees them after unwrapping:    *)
(* the claims below are about responses that decode to a list of JSON      *)
(* objects, row i of the result being made from row i of the response.     *)
(***************************************************************************)
Returned == ret # Pending /\ ~ret.out.raised

HasRows ==
    /\ arg.kind = "json"
    /\ Unwrap(arg.data).t = "list"
    /\ \A i \in 1..Len(Unwrap(arg.data).items) :
          IsDict(Unwrap(arg.data).items[i])

InputRows == Unwrap(arg.data).items

\* A value that is a number, or a string that spells one.
Numeric(v) ==
    \/ v.t \in {"int", "float"}
    \/ v.t = "str" /\ v.s \in DOMAIN NumericStrings

(***************************************************************************)
(* C11.  For every row of every extraction response, analyse_tasks         *)
(* returns and sets Est. Minutes to a non-negative integer, 0 when the     *)
(* model's value is missing or is not numeric: a non-numeric duration      *)
(* never makes it fail and no returned duration is negative.               *)
(***************************************************************************)
C11_NonNegativeMinutes ==
    (ret # Pending /\ HasRows) =>
        /\ ~ret.out.raised
        /\ \A i \in 1..Len(ret.out.rows) :
             LET mins == ret.out.rows[i]["Est. Minutes"]
                 given == Get(InputRows[i], "Est. Minutes", None)
             IN  /\ mins.t = "int"
                 /\ mins.n >= 0
                 /\ ~Numeric(given) => mins.n = 0

(***************************************************************************)
(* The vocabularies the callers pass to analyse_tasks: /add passes         *)
(* ["General"] for both (bot.py:131); the form passes what its two inputs  *)
(* hold, by default ClientA, ClientB and ProjectX, ProjectY (app.py:7-8).  *)
(* analyse_tasks writes them into the prompt (utils.py:48-49) and reads    *)
(* them nowhere else: what it returns depends on the response alone.       *)
(***************************************************************************)
ClientVocabularies == { {"General"}, {"ClientA", "ClientB"} }

ProjectVocabularies == { {"General"}, {"ProjectX", "ProjectY"} }

\* The label is one of the vocabulary, or the default.
Allowed(v, vocabulary) == v \in { StrV(x) : x \in vocabulary \cup {"General"} }

(***************************************************************************)
(* C12.  Every row analyse_tasks returns has a Client that is one of the   *)
(* allowed clients passed in or "General", and "General" whenever the      *)
(* model's Client is absent or is not an allowed client; likewise its      *)
(* Project, with the allowed projects.                                     *)
(***************************************************************************)
C12_VocabularyOrGeneral ==
    (Returned /\ HasRows) =>
        \A clients \in ClientVocabularies, projects \in ProjectVocabularies :
            \A i \in 1..Len(ret.out.rows) :
                LET row == ret.out.rows[i]
                    client == Get(InputRows[i], "Client", Absent)
                    project == Get(InputRows[i], "Project", Absent)
                IN  /\ Allowed(row["Client"], clients)
                    /\ Allowed(row["Project"], projects)
                    /\ ~Allowed(client, clients \ {"General"}) =>
                            row["Client"] = StrV("General")
                    /\ ~Allowed(project, projects \ {"General"}) =>
                            row["Project"] = StrV("General")

(***************************************************************************)
(* C13.  Whichever of the keys DueDate and Due Date the model used, every  *)
(* row analyse_tasks returns has a DueDate that is a calendar date without *)
(* time of day, or null; it is null when the phrase is absent, empty or    *)
(* cannot be parsed, which does not make the extraction fail; and the row  *)
(* keeps no Due Date key.                                                  *)
(***************************************************************************)
DueKeys == {"DueDate", "Due Date"}

\* The row has no phrase that parses, under either key.
NoPhrase(row) ==
    \A k \in DueKeys :
        ~Truthy(Get(row, k, None)) \/ ~CanParseDate(Get(row, k, None))

C13_DueDateNormalised ==
    (ret # Pending /\ HasRows) =>
        /\ (\A i \in 1..Len(InputRows) : CanInt(MinsArg(InputRows[i])))
              => ~ret.out.raised
        /\ \A i \in 1..Len(ret.out.rows) :
             LET row == ret.out.rows[i]
             IN  /\ "DueDate" \in DOMAIN row
                 /\ row["DueDate"] = None \/ row["DueDate"].t = "isodate"
                 /\ NoPhrase(InputRows[i]) => row["DueDate"] = None
                 /\ "Due Date" \notin DOMAIN row

(***************************************************************************)
(* C14.  Each firing of the daily digest job sends exactly one message and *)
(* changes no record: when at least one record is not done and is due on   *)
(* the current date, the message lists exactly those records; when there   *)
(* is none, it is the nothing-due message.                                 *)
(***************************************************************************)
\* The positions of the records that are not done and due on the date of t.
OpenDueOn(t) ==
    { i \in 1..Len(store) :
        /\ Get(store[i].fields, "Done", BoolV(FALSE))
              \notin {BoolV(TRUE), IntV(1)}
        /\ DueOf(store[i]) = DateV(DayOf(t)) }

\* The daily job has fired in this step: only then is its entry put off
\* by a day while last becomes its outcome.
DigestFires == last'.op = "_morning" /\ jobs' # jobs

C14_DigestMessage ==
    [][ DigestFires =>
            /\ ~last'.raised
            /\ store' = store
            /\ OpenDueOn(now) # {} =>
                  /\ last'.msg.kind = "todays_tasks"
                  /\ Len(last'.msg.lines) = Cardinality(OpenDueOn(now))
                  /\ { last'.msg.lines[k].id : k \in 1..Len(last'.msg.lines) }
                        = { store[i].id : i \in OpenDueOn(now) }
            /\ OpenDueOn(now) = {} =>
                  /\ last'.msg.kind = "nothing_due"
                  /\ last'.msg.lines = <<>> ]_vars

\* The digest lists a record due today and leaves out one that is done.
C14_Witness ==
    /\ last.op = "_morning"
    /\ last.msg.kind = "todays_tasks"
    /\ \E i \in 1..Len(store) :
          /\ DueOf(store[i]) = DateV(DayOf(now))
          /\ Get(store[i].fields, "Done", None) = BoolV(TRUE)
          /\ \A k \in 1..Len(last.msg.lines) :
                last.msg.lines[k].id # store[i].id

(***************************************************************************)
(* C15.  /delete and /done leave the job queue as it was: the nudge and    *)
(* the reminders of the record stay pending.  A one-shot job that fires,   *)
(* after the deletion of its record as well, sends its message with the    *)
(* task description taken when it was registered, does not fail and leaves *)
(* the store alone.                                                        *)
(***************************************************************************)
\* A one-shot job has fired in this step.
OneShotFires ==
    /\ last'.op \in {"_after_4h", "_due_reminder"}
    /\ Len(jobs') = Len(jobs) - 1

C15_StaleJobsStillFire ==
    [][ /\ (last'.op \in {"done", "delete"} /\ store' # store) =>
                jobs' = jobs
        /\ OneShotFires =>
                \E i \in 1..Len(jobs) :
                    /\ jobs' = Without(jobs, i)
                    /\ jobs[i].fireAt <= now
                    /\ last'.msg.task = jobs[i].data.task
                    /\ ~last'.raised
                    /\ store' = store ]_vars

\* The nudge of a record has fired after every record was deleted, and the
\* reminders of a deleted record are still pending.
C15_Witness ==
    /\ last.op = "_after_4h"
    /\ last.msg.task \in {StrV("t1"), StrV("t2")}
    /\ created > 0
    /\ store = <<>>
    /\ \E j \in 1..Len(jobs) : jobs[j].callback = "_due_reminder"

(***************************************************************************)
(* C16.  A chat message that is bare text is handled as /add with the      *)
(* same text: for some answer of the language model and of the store, the  *)
(* table, the job queue and the reply are what add leaves.                 *)
(***************************************************************************)
C16_BareTextIsAdd ==
    [][ (last'.op = "text" /\ last' # last) =>
            \E response \in BotResponses :
                /\ created + RowCount(response, now) <= MaxCreates
                /\ \E rejectAt \in 0..RowCount(response, now) :
                      LET r == add(last'.text, response, rejectAt,
                                   store, jobs, created, now)
                      IN  /\ store' = r.store
                          /\ jobs' = r.jobs
                          /\ created' = r.created
                          /\ last'.reply = r.last.reply ]_vars

(***************************************************************************)
(* C17.  A /done or /delete that succeeds changes one stored record, whose *)
(* id starts with the prefix given (its leading # stripped): /done sets    *)
(* the Done field of that record to true and leaves its other fields as    *)
(* they were, /delete removes that record; every other record is           *)
(* unchanged, also when the prefix is empty or several ids start with it.  *)
(***************************************************************************)
\* The handler has run in this step (a repeated command that finds the
\* table as it left it changes nothing).
HandlerRan == last' # last \/ store' # store

\* store' is store with Done set in record i and nothing else touched.
OnlyDoneSet(i) ==
    /\ Len(store') = Len(store)
    /\ \A k \in 1..Len(store) : k # i => store'[k] = store[k]
    /\ store'[i].id = store[i].id
    /\ DOMAIN store'[i].fields = DOMAIN store[i].fields \cup {"Done"}
    /\ store'[i].fields["Done"] = BoolV(TRUE)
    /\ \A f \in DOMAIN store[i].fields :
          f # "Done" => store'[i].fields[f] = store[i].fields[f]

\* store' is store with record i taken out and nothing else touched.
OnlyRemoved(i) ==
    /\ Len(store') = Len(store) - 1
    /\ \A k \in 1..Len(store') :
          store'[k] = IF k < i THEN store[k] ELSE store[k + 1]

C17_OneRecordChanged ==
    [][ /\ (HandlerRan /\ last'.op = "done" /\ last'.reply = "done") =>
              \E i \in 1..Len(store) :
                  /\ store[i].id = last'.id
                  /\ StartsWith(store[i].id, last'.uid)
                  /\ OnlyDoneSet(i)
        /\ (HandlerRan /\ last'.op = "delete" /\ last'.reply = "deleted") =>
              \E i \in 1..Len(store) :
                  /\ store[i].id = last'.id
                  /\ StartsWith(store[i].id, last'.uid)
                  /\ OnlyRemoved(i) ]_vars

\* /done # (an empty prefix, which both stored ids start with) has marked
\* one record done and left the other open.
C17_Witness ==
    /\ last.op = "done"
    /\ last.reply = "done"
    /\ last.uid = <<>>
    /\ Len(store) = 2
    /\ \E i, k \in 1..Len(store) :
          /\ store[i].id = last.id
          /\ store[i].fields["Done"] = BoolV(TRUE)
          /\ store[k].fields["Done"] = BoolV(FALSE)

(***************************************************************************)
(* C18.  When /add is given --due with a date, every record the command    *)
(* creates is stored with DueDate equal to the date of the flag, whatever  *)
(* due date the extraction gave the row; the three due-date reminders of   *)
(* each such record are computed from the date of the flag; and the text   *)
(* sent to extraction holds neither the flag nor its date.                 *)
(***************************************************************************)
HasDueFlag ==
    /\ AfterAdd
    /\ "DueDate" \in DOMAIN last.extras
    /\ IsIsoDate(last.extras["DueDate"])

\* The number add computes for reminder j and hands to run_once: 09:00 on
\* the day the label names, counted from the date of the flag.
ComputedFor(j) == NewJobs[j].fireAt - last.at

C18_DueFlagOverrides ==
    HasDueFlag =>
        LET flag == last.extras["DueDate"]
        IN  /\ \A i \in 1..Len(NewRecords) :
                 LET id == NewRecords[i].id
                 IN  /\ DueOf(NewRecords[i]) = flag
                     /\ { NewJobs[j].data.label : j \in RemindersFor(id) }
                          = { "due in 2 days", "due tomorrow", "due today" }
                     /\ \A j \in RemindersFor(id) :
                          ComputedFor(j) =
                              timestamp(flag.d
                                  - DaysBefore(NewJobs[j].data.label), 9)
            /\ \A k \in 1..Len(last.text) :
                 last.text[k] # StrV("--due") /\ last.text[k] # flag

\* /add milk --p high --due <day 10> has stored the row the extraction
\* dated day 11 with DueDate day 10.
C18_Witness ==
    /\ HasDueFlag
    /\ last.reply = "added"
    /\ last.text = <<StrV("milk")>>
    /\ \E i \in 1..Len(NewRecords) :
          /\ NewRecords[i].fields["Task"] = StrV("t2")
          /\ DueOf(NewRecords[i]) = DateV(10)
          /\ RowB["DueDate"] = DateV(11)

=============================================================================
